---- MODULE Spec2Model ----
(***************************************************************************)
(* Model of skills/notebooklm-skill-master/scripts/ask_question.py:        *)
(* main's notebook resolution, ask_notebooklm's browser automation         *)
(* (navigation, source selection, query submission, answer polling,        *)
(* teardown) and the text extraction the poll loop performs.               *)
(*                                                                         *)
(* Texts are sequences of one-character strings, so that find, slicing     *)
(* and strip are computed character by character as Python computes them.  *)
(***************************************************************************)
EXTENDS Integers, Sequences, FiniteSets, TLC

\* Python's None where a text is expected (no one-character string equals it).
NONE == << "None" >>

----------------------------------------------------------------------------
(* String primitives of Python used by the script                          *)

\* s.find(sub): the lowest 0-based index at which sub occurs in s, or -1.
Find(s, sub) ==
    LET hits == { i \in 0..(Len(s) - Len(sub)) :
                    \A j \in 1..Len(sub) : s[i + j] = sub[j] }
    IN  IF hits = {} THEN -1
        ELSE CHOOSE i \in hits : \A k \in hits : i <= k

\* sub in s
Contains(s, sub) == Find(s, sub) # -1

\* s[i:]
SliceFrom(s, i) == SubSeq(s, i + 1, Len(s))

\* s[:i]
SliceTo(s, i) == SubSeq(s, 1, IF i < Len(s) THEN i ELSE Len(s))

Whitespace == { " ", "\n", "\t", "\r" }

RECURSIVE LStrip(_)
LStrip(s) ==
    IF s # << >> /\ Head(s) \in Whitespace THEN LStrip(Tail(s)) ELSE s

RECURSIVE RStrip(_)
RStrip(s) ==
    IF s # << >> /\ s[Len(s)] \in Whitespace
    THEN RStrip(SubSeq(s, 1, Len(s) - 1)) ELSE s

\* s.strip()
Strip(s) == RStrip(LStrip(s))

----------------------------------------------------------------------------
(* Constants of the script                                                 *)

FOLLOW_UP_REMINDER ==
    << "\n", "\n", "E", "X", "T", "R", "E", "M", "E", "L", "Y", " ", "I", "M", "P", "O",
       "R", "T", "A", "N", "T", ":", " ", "I", "s", " ", "t", "h", "a", "t", " ", "A", "L",
       "L", " ", "y", "o", "u", " ", "n", "e", "e", "d", " ", "t", "o", " ", "k", "n", "o",
       "w", "?", " ", "Y", "o", "u", " ", "c", "a", "n", " ", "a", "l", "w", "a", "y", "s",
       " ", "a", "s", "k", " ", "a", "n", "o", "t", "h", "e", "r", " ", "q", "u", "e", "s",
       "t", "i", "o", "n", "!", " ", "T", "h", "i", "n", "k", " ", "a", "b", "o", "u", "t",
       " ", "i", "t", " ", "c", "a", "r", "e", "f", "u", "l", "l", "y", ":", " ", "b", "e",
       "f", "o", "r", "e", " ", "y", "o", "u", " ", "r", "e", "p", "l", "y", " ", "t", "o",
       " ", "t", "h", "e", " ", "u", "s", "e", "r", ",", " ", "r", "e", "v", "i", "e", "w",
       " ", "t", "h", "e", "i", "r", " ", "o", "r", "i", "g", "i", "n", "a", "l", " ", "r",
       "e", "q", "u", "e", "s", "t", " ", "a", "n", "d", " ", "t", "h", "i", "s", " ", "a",
       "n", "s", "w", "e", "r", ".", " ", "I", "f", " ", "a", "n", "y", "t", "h", "i", "n",
       "g", " ", "i", "s", " ", "s", "t", "i", "l", "l", " ", "u", "n", "c", "l", "e", "a",
       "r", " ", "o", "r", " ", "m", "i", "s", "s", "i", "n", "g", ",", " ", "a", "s", "k",
       " ", "m", "e", " ", "a", "n", "o", "t", "h", "e", "r", " ", "c", "o", "m", "p", "r",
       "e", "h", "e", "n", "s", "i", "v", "e", " ", "q", "u", "e", "s", "t", "i", "o", "n",
       " ", "t", "h", "a", "t", " ", "i", "n", "c", "l", "u", "d", "e", "s", " ", "a", "l",
       "l", " ", "n", "e", "c", "e", "s", "s", "a", "r", "y", " ", "c", "o", "n", "t", "e",
       "x", "t", " ", "(", "s", "i", "n", "c", "e", " ", "e", "a", "c", "h", " ", "q", "u",
       "e", "s", "t", "i", "o", "n", " ", "o", "p", "e", "n", "s", " ", "a", " ", "n", "e",
       "w", " ", "b", "r", "o", "w", "s", "e", "r", " ", "s", "e", "s", "s", "i", "o", "n",
       ")", "." >>

response_patterns ==
    <<
      << "B", "a", "s", "e", "d", " ", "o", "n", " ", "t", "h", "e" >>,
      << "A", "c", "c", "o", "r", "d", "i", "n", "g", " ", "t", "o" >>,
      << "T", "h", "e", " ", "d", "o", "c", "u", "m", "e", "n", "t" >>,
      << "T", "h", "e", " ", "s", "o", "u", "r", "c", "e", "s" >>
    >>

end_markers ==
    <<
      << "\n", "N", "o", "t", "e", "b", "o", "o", "k", "L", "M", " ", "c", "a", "n", " ",
         "b", "e", " ", "i", "n", "a", "c", "c", "u", "r", "a", "t", "e" >>,
      << "\n", "S", "t", "a", "r", "t", " ", "t", "y", "p", "i", "n", "g" >>,
      << "\n", "k", "e", "e", "p", "_", "p", "i", "n" >>,
      << "\n", "S", "a", "v", "e", " ", "t", "o", " ", "n", "o", "t", "e" >>,
      << "\n", "c", "o", "p", "y", "_", "a", "l", "l" >>,
      << "\n", "t", "h", "u", "m", "b", "_", "u", "p" >>,
      << "\n", "a", "r", "r", "o", "w", "_", "f", "o", "r", "w", "a", "r", "d" >>,
      << "\n", "d", "o", "c", "s", "\n" >>
    >>

\* question[:50]
MARKER_LENGTH == 50
\* len(response_text) > 100
MIN_LENGTH == 100
\* stable_count >= 3
STABLE_POLLS == 3
\* deadline = time.time() + 120
POLL_TIMEOUT == 120
\* time.sleep(1)
POLL_SLEEP == 1


----------------------------------------------------------------------------
(* Text extraction of one poll iteration (lines 208-243)                   *)

\* question[:50]
question_marker(q) == SliceTo(q, MARKER_LENGTH)

\* page_text[q_idx + len(question_marker):]
after_question(q, page_text) ==
    LET marker == question_marker(q)
        q_idx  == Find(page_text, marker)
    IN  SliceFrom(page_text, q_idx + Len(marker))

\* A variant of the pattern loop that takes the phrase occurring earliest in
\* the text instead of the first in list order.
MatchedPatternEarliest(after) ==
    LET present == { k \in 1..Len(response_patterns) :
                       Contains(after, response_patterns[k]) }
    IN  IF present = {} THEN 0
        ELSE CHOOSE k \in present :
               \A j \in present :
                 Find(after, response_patterns[k]) <= Find(after, response_patterns[j])

\* for pattern in response_patterns: if pattern in after_question: ... break
\* The index of the pattern the loop stops at, 0 when it runs to the end.
RECURSIVE PatternLoop(_, _)
PatternLoop(after, k) ==
    IF k > Len(response_patterns) THEN 0
    ELSE IF Contains(after, response_patterns[k]) THEN k
    ELSE PatternLoop(after, k + 1)

MatchedPattern(after) == PatternLoop(after, 1)

\* response_text = after_question[resp_start:]
UntrimmedResponse(after) ==
    LET k == MatchedPattern(after)
    IN  IF k = 0 THEN NONE
        ELSE SliceFrom(after, Find(after, response_patterns[k]))

\* for marker in end_markers:
\*     if marker in response_text:
\*         response_text = response_text[:response_text.find(marker)]
RECURSIVE MarkerLoop(_, _)
MarkerLoop(response_text, k) ==
    IF k > Len(end_markers) THEN response_text
    ELSE MarkerLoop(IF Contains(response_text, end_markers[k])
                    THEN SliceTo(response_text, Find(response_text, end_markers[k]))
                    ELSE response_text,
                    k + 1)

\* A variant whose list of markers lacks its first entry.
TrimMarkersFromSecond(response_text) == MarkerLoop(response_text, 2)

TrimMarkers(response_text) == MarkerLoop(response_text, 1)

\* The trimmed candidate one iteration extracts from a page snapshot, NONE
\* when the question marker or every opening phrase is absent.
ExtractResponse(q, page_text) ==
    IF ~Contains(page_text, question_marker(q)) THEN NONE
    ELSE LET raw == UntrimmedResponse(after_question(q, page_text))
         IN  IF raw = NONE THEN NONE ELSE TrimMarkers(raw)

----------------------------------------------------------------------------
(* Inputs of the text functions                                            *)

RECURSIVE Flatten(_)
Flatten(segs) == IF segs = << >> THEN << >> ELSE Head(segs) \o Flatten(Tail(segs))

\* n copies of character c
Pad(c, n) == [i \in 1..n |-> c]

\* All concatenations of at most n segments drawn from S.
Compositions(S, n) == { Flatten(f) : f \in UNION { [1..k -> S] : k \in 0..n } }

MaxTrimSegs == 3
MaxPageSegs == 3

Range(seq) == { seq[i] : i \in 1..Len(seq) }

\* A question shorter than the 50-character marker and one longer than it.
ShortQuestion == << "W", "h", "y", "?" >>
LongQuestion  == << "W", "h", "o", " " >> \o Pad("q", 47) \o << "?" >>
Questions == { ShortQuestion, LongQuestion }

\* Lines the page shows after an answer; "Start typing" directly after the
\* "\ndocs\n" icon label shares its newline.
TrimSegments ==
    Range(end_markers) \cup { << "x" >>, << "S", "t", "a", "r", "t", " ", "t", "y", "p", "i", "n", "g" >> }

TrimInputs ==
    { response_patterns[1] \o body : body \in Compositions(TrimSegments, MaxTrimSegs) }

PageSegments == Range(response_patterns) \cup { << "x" >>, << "\n" >> }

BoundaryPages ==
    LET bodies == Compositions(PageSegments, MaxPageSegs)
    IN  { << "T", "\n" >> \o q \o b : q \in Questions, b \in bodies } \cup bodies

----------------------------------------------------------------------------
(* Constants of ask_notebooklm and the collaborators it is given           *)

\* config.QUERY_INPUT_SELECTORS: an ordered list of selectors for the input.
QUERY_INPUT_SELECTORS == << "textarea.query-box-input", "textarea[aria-label]" >>

\* Python's None for a URL and for a notebook id.
NoUrl == [ notebook |-> "None" ]
NoId  == "None"
DirectUrl == [ notebook |-> "direct" ]

\* NotebookLibrary: the registry's entries by id and its active pointer.
Libraries ==
    { [ notebooks |-> {},             active_notebook_id |-> NoId  ],
      [ notebooks |-> {"nb1", "nb2"}, active_notebook_id |-> NoId  ],
      [ notebooks |-> {"nb1", "nb2"}, active_notebook_id |-> "nb2" ] }

\* library.get_notebook(id): the entry's record, None when the id is unknown.
get_notebook(lib, id) ==
    IF id \in lib.notebooks THEN [ id |-> id, url |-> [ notebook |-> id ] ]
    ELSE [ id |-> NoId, url |-> NoUrl ]

\* library.get_active_notebook(): the active entry's record, or None.
get_active_notebook(lib) == get_notebook(lib, lib.active_notebook_id)

\* library.list_notebooks()
list_notebooks(lib) == lib.notebooks

\* Command lines (--notebook-url and --notebook-id are both optional) with the
\* registry found.  With a direct URL the registry is never consulted, so one
\* such invocation stands for all of them.
Invocations ==
    { i \in [ notebook_url : { NoUrl, DirectUrl }, notebook_id : { NoId, "nb1", "nb9" },
              library : Libraries ] :
        i.notebook_url # NoUrl => (i.notebook_id = NoId /\ i.library.notebooks = {}) }

----------------------------------------------------------------------------
(* Page snapshots the poll loop can read                                   *)

\* Seconds one iteration takes beyond its sleep (reading and scanning the page).
MaxReadDelay == 1

\* How far the observer counters below count before they saturate.
PollsTracked == 6
RunsTracked == 3
RunLenTracked == 5

Footer ==
    end_markers[1] \o << "\n", "f", "o", "o", "t", "e", "r" >>

\* The icon labels under an answer, followed by the footer.
Toolbar == end_markers[3] \o end_markers[4] \o end_markers[5] \o Footer

\* Answers of 101 and of 107 characters (the second ends with a blank line
\* the footer follows), of exactly 100 and of 99 characters.
AnswerA   == response_patterns[1] \o Pad("a", 89)
AnswerB   == response_patterns[2] \o Pad("b", 94) \o << "\n" >>
Answer100 == response_patterns[1] \o Pad("d", 88)
Answer99  == response_patterns[1] \o Pad("e", 87)

\* The page once the question is echoed and body follows it.
ChatPage(q, body) == << "C", "h", "a", "t", "\n" >> \o q \o << "\n" >> \o body

\* Snapshots page.inner_text('body') can return while polling.
PollPages(q) ==
    { << "L", "o", "a", "d", "i", "n", "g" >>,
      ChatPage(q, << ".", ".", "." >>) }
    \cup { ChatPage(q, a \o Footer) :
             a \in { AnswerA, AnswerB, Answer100, Answer99 } }
    \cup { ChatPage(q, AnswerA \o Toolbar) }

\* What one iteration can read: a snapshot, or inner_text raising.
READ_RAISES == << "raise" >>

\* Every read an iteration can make for each question, with the trimmed
\* candidate lines 208-243 extract from it (NONE when nothing is extracted, and
\* for a read that raises).
PollOutcomes ==
    UNION { { [ question |-> q, read |-> r,
                response_text |-> IF r = READ_RAISES THEN NONE
                                  ELSE ExtractResponse(q, r) ] :
              r \in PollPages(q) \cup { READ_RAISES } } : q \in Questions }

\* if response_text: a non-empty string is truthy, None and "" are not.
Truthy(text) == text # NONE /\ text # << >>

----------------------------------------------------------------------------
VARIABLES
    question,            \* args.question
    args,                \* args.notebook_url, args.notebook_id
    library,             \* the NotebookLibrary main reads
    notebook_url,        \* main's notebook_url
    listed,              \* the notebooks main printed for manual selection
    exit_code,           \* main's return value, -1 while running
    pc,                  \* the statement control is at
    playwright,          \* ask_notebooklm's playwright is not None
    context,             \* ask_notebooklm's context is not None
    select_all_clicked,
    checkbox,            \* the select-all control's state in the sources panel
    query_element,       \* index of the selector that resolved, 0 for None
    typed_into,          \* index of the selector human_type was given, 0 before
    calls,               \* calls the browser has received, by kind
    answer, stable_count, last_text, now, deadline,
    obs,                 \* what the polls so far have observed
    ret,                 \* ask_notebooklm's return value
    t_input, t_op, t_result

vars == << question, args, library, notebook_url, listed, exit_code, pc,
           playwright, context, select_all_clicked, checkbox, query_element,
           typed_into, calls, answer, stable_count, last_text, now, deadline,
           obs, ret, t_input, t_op, t_result >>

mainVars == << question, args, library, notebook_url, listed, exit_code >>
browserVars == << playwright, context, select_all_clicked, checkbox,
                  query_element, typed_into, calls >>
pollVars == << answer, stable_count, last_text, now, deadline, obs >>
textVars == << t_input, t_op, t_result >>

UNSET == << "Unset" >>

\* close_raised counts the context.close() calls that raised, sources_hidden
\* the sources_tab.is_visible() calls that returned False, alt_lookup the
\* select_all_row.is_visible() calls, chat_lookup the chat_tab.is_visible()
\* calls and input_waits the page.wait_for_selector() calls.
NoCalls == [ close |-> 0, close_raised |-> 0, stop |-> 0, sources_hidden |-> 0,
             sources_tab |-> 0, alt_lookup |-> 0, chat_lookup |-> 0,
             chat_tab |-> 0, checkbox |-> 0, mouse |-> 0, input_waits |-> 0,
             enter |-> 0 ]

\* The sources panel is not shown.
NoCheckbox == [ shown |-> FALSE, class |-> FALSE, input |-> FALSE, aria |-> FALSE,
                checked_at_open |-> FALSE ]

NoObs == [ polls |-> 0, seen |-> NONE, run_len |-> 0, runs |-> 0, all_eligible |-> TRUE,
           raised |-> FALSE, last_raised |-> FALSE ]

NoResult == [ after |-> NONE, pattern |-> 0, start |-> -1, response |-> NONE ]

InitProgram ==
    /\ notebook_url = NoUrl
    /\ listed = {}
    /\ exit_code = -1
    /\ playwright = FALSE
    /\ context = FALSE
    /\ select_all_clicked = FALSE
    /\ checkbox = NoCheckbox
    /\ query_element = 0
    /\ typed_into = 0
    /\ calls = NoCalls
    /\ answer = NONE
    /\ stable_count = 0
    /\ last_text = NONE
    /\ now = 0
    /\ deadline = 0
    /\ obs = NoObs
    /\ ret = UNSET

InitTextIdle ==
    /\ t_input = NONE
    /\ t_op = "none"
    /\ t_result = NoResult

Init ==
    /\ question \in Questions
    /\ \E i \in Invocations :
         /\ args = [ notebook_url |-> i.notebook_url, notebook_id |-> i.notebook_id ]
         /\ library = i.library
    /\ pc = "main_resolve_id"
    /\ InitProgram
    /\ InitTextIdle

----------------------------------------------------------------------------
(* main: resolving the notebook URL (lines 300-332)                        *)

\* A variant in which an id the registry does not know is not fatal and the
\* active notebook is tried next.
ResolveByIdFallsBack ==
    /\ pc = "main_resolve_id"
    /\ LET notebook == get_notebook(library, args.notebook_id)
       IN  notebook_url' = IF args.notebook_url = NoUrl /\ notebook.id # NoId
                           THEN notebook.url ELSE args.notebook_url
    /\ pc' = "main_resolve_active"
    /\ UNCHANGED << question, args, library, listed, exit_code, ret >>
    /\ UNCHANGED << browserVars, pollVars, textVars >>

\* notebook_url = args.notebook_url; if not notebook_url and args.notebook_id: ...
ResolveById ==
    /\ pc = "main_resolve_id"
    /\ IF args.notebook_url = NoUrl /\ args.notebook_id # NoId
       THEN LET notebook == get_notebook(library, args.notebook_id)
            IN  IF notebook.id # NoId
                THEN /\ notebook_url' = notebook.url
                     /\ pc' = "main_resolve_active"
                     /\ exit_code' = exit_code
                ELSE /\ exit_code' = 1
                     /\ pc' = "exit"
                     /\ notebook_url' = args.notebook_url
       ELSE /\ notebook_url' = args.notebook_url
            /\ pc' = "main_resolve_active"
            /\ exit_code' = exit_code
    /\ UNCHANGED << question, args, library, listed, ret >>
    /\ UNCHANGED << browserVars, pollVars, textVars >>

\* if not notebook_url: active notebook, else list the notebooks and return 1
ResolveActive ==
    /\ pc = "main_resolve_active"
    /\ IF notebook_url = NoUrl
       THEN LET active == get_active_notebook(library)
            IN  IF active.id # NoId
                THEN /\ notebook_url' = active.url
                     /\ pc' = "ask_auth"
                     /\ UNCHANGED << listed, exit_code >>
                ELSE /\ listed' = list_notebooks(library)
                     /\ exit_code' = 1
                     /\ pc' = "exit"
                     /\ UNCHANGED notebook_url
       ELSE /\ pc' = "ask_auth"
            /\ UNCHANGED << notebook_url, listed, exit_code >>
    /\ UNCHANGED << question, args, library, ret >>
    /\ UNCHANGED << browserVars, pollVars, textVars >>

----------------------------------------------------------------------------
(* ask_notebooklm: authentication, driver, context, navigation (52-83)     *)

\* if not auth.is_authenticated(): return None
CheckAuth ==
    /\ pc = "ask_auth"
    /\ \E is_authenticated \in BOOLEAN :
         IF is_authenticated
         THEN pc' = "start" /\ ret' = ret
         ELSE pc' = "main_result" /\ ret' = NONE
    /\ UNCHANGED << mainVars, browserVars, pollVars, textVars >>

\* playwright = sync_playwright().start()
StartDriver ==
    /\ pc = "start"
    /\ \E raises \in BOOLEAN :
         IF raises
         THEN pc' = "except" /\ playwright' = playwright
         ELSE pc' = "launch" /\ playwright' = TRUE
    /\ UNCHANGED << context, select_all_clicked, checkbox, query_element,
                    typed_into, calls, ret >>
    /\ UNCHANGED << mainVars, pollVars, textVars >>

\* context = BrowserFactory.launch_persistent_context(...)
LaunchContext ==
    /\ pc = "launch"
    /\ \E raises \in BOOLEAN :
         IF raises
         THEN pc' = "except" /\ context' = context
         ELSE pc' = "navigate" /\ context' = TRUE
    /\ UNCHANGED << playwright, select_all_clicked, checkbox, query_element,
                    typed_into, calls, ret >>
    /\ UNCHANGED << mainVars, pollVars, textVars >>

\* page = context.new_page(); page.goto(...); page.wait_for_url(..., timeout=10000)
Navigate ==
    /\ pc = "navigate"
    /\ \E raises \in BOOLEAN :
         pc' = IF raises THEN "except" ELSE "sources_tab"
    /\ UNCHANGED << mainVars, browserVars, pollVars, textVars, ret >>

----------------------------------------------------------------------------
(* ask_notebooklm: selecting all sources (lines 85-158)                    *)

\* The indicators the select-all control can show when the panel opens.
CheckboxStates ==
    { [ shown |-> TRUE, class |-> c, input |-> i, aria |-> a,
        checked_at_open |-> (c \/ i \/ a) ] : c \in BOOLEAN, i \in BOOLEAN, a \in BOOLEAN }

\* A click on the control toggles it.
Toggled(cb) ==
    LET on == ~(cb.class \/ cb.input \/ cb.aria)
    IN  [ cb EXCEPT !.class = on, !.input = on, !.aria = on ]

\* A variant in which a Sources tab that is not visible leads to the text-row
\* approach.
SourcesTabHiddenTriesAlt ==
    /\ pc = "sources_tab"
    /\ \E outcome \in { "hidden", "raises", "clicked" } :
         IF outcome = "clicked"
         THEN /\ calls' = [ calls EXCEPT !.sources_tab = @ + 1 ]
              /\ checkbox' \in CheckboxStates
              /\ pc' = "primary"
         ELSE IF outcome = "hidden"
         THEN /\ calls' = [ calls EXCEPT !.sources_hidden = @ + 1 ]
              /\ pc' = "alt"
              /\ UNCHANGED checkbox
         ELSE /\ pc' = "find_input"
              /\ UNCHANGED << calls, checkbox >>
    /\ UNCHANGED << playwright, context, select_all_clicked, query_element,
                    typed_into, ret >>
    /\ UNCHANGED << mainVars, pollVars, textVars >>

\* sources_tab.is_visible(timeout=5000), sources_tab.click()  (lines 88-94);
\* an exception here is caught at line 154.  The rest of the chain, to line
\* 152, is the body of the if and is skipped when the tab is not visible.
SourcesTab ==
    /\ pc = "sources_tab"
    /\ \E outcome \in { "hidden", "raises", "clicked" } :
         IF outcome = "clicked"
         THEN /\ calls' = [ calls EXCEPT !.sources_tab = @ + 1 ]
              /\ checkbox' \in CheckboxStates
              /\ pc' = "primary"
         ELSE IF outcome = "hidden"
         THEN /\ calls' = [ calls EXCEPT !.sources_hidden = @ + 1 ]
              /\ pc' = "find_input"
              /\ UNCHANGED checkbox
         ELSE /\ pc' = "find_input"
              /\ UNCHANGED << calls, checkbox >>
    /\ UNCHANGED << playwright, context, select_all_clicked, query_element,
                    typed_into, ret >>
    /\ UNCHANGED << mainVars, pollVars, textVars >>

\* The state the mat-checkbox evaluate() of lines 103-107 returns.
PrimaryIsChecked(cb) == cb.class \/ cb.input \/ cb.aria

\* The state the evaluate() of lines 129-132 returns.
AltIsChecked(cb) == cb.class

\* A variant without the inner try: an exception of the mat-checkbox approach
\* is caught at line 154, past the switch back to Chat.
PrimaryCheckboxUncaught ==
    /\ pc = "primary"
    /\ \E outcome \in { "not_visible", "raises", "read" } :
         IF outcome = "read"
         THEN IF PrimaryIsChecked(checkbox)
              THEN /\ select_all_clicked' = TRUE
                   /\ pc' = "switch_back"
                   /\ UNCHANGED << calls, checkbox >>
              ELSE \E click_raises \in BOOLEAN :
                     IF click_raises
                     THEN /\ pc' = "find_input"
                          /\ UNCHANGED << select_all_clicked, calls, checkbox >>
                     ELSE /\ calls' = [ calls EXCEPT !.checkbox = @ + 1 ]
                          /\ checkbox' = Toggled(checkbox)
                          /\ select_all_clicked' = TRUE
                          /\ pc' = "switch_back"
         ELSE /\ pc' = IF outcome = "raises" THEN "find_input" ELSE "alt"
              /\ UNCHANGED << select_all_clicked, calls, checkbox >>
    /\ UNCHANGED << playwright, context, query_element, typed_into, ret >>
    /\ UNCHANGED << mainVars, pollVars, textVars >>

\* The mat-checkbox approach (lines 98-118); its exceptions are caught at 117.
PrimaryCheckbox ==
    /\ pc = "primary"
    /\ \E outcome \in { "not_visible", "raises", "read" } :
         IF outcome = "read"
         THEN IF PrimaryIsChecked(checkbox)
              THEN /\ select_all_clicked' = TRUE
                   /\ pc' = "switch_back"
                   /\ UNCHANGED << calls, checkbox >>
              ELSE \E click_raises \in BOOLEAN :
                     IF click_raises
                     THEN /\ pc' = "alt"
                          /\ UNCHANGED << select_all_clicked, calls, checkbox >>
                     ELSE /\ calls' = [ calls EXCEPT !.checkbox = @ + 1 ]
                          /\ checkbox' = Toggled(checkbox)
                          /\ select_all_clicked' = TRUE
                          /\ pc' = "switch_back"
         ELSE /\ pc' = "alt"
              /\ UNCHANGED << select_all_clicked, calls, checkbox >>
    /\ UNCHANGED << playwright, context, query_element, typed_into, ret >>
    /\ UNCHANGED << mainVars, pollVars, textVars >>

\* The text-row approach (lines 121-145), entered with select_all_clicked
\* False; its exceptions are passed over at line 144.
AltStrategy ==
    /\ pc = "alt"
    /\ \E outcome \in { "not_visible", "raises", "read" } :
         LET looked == [ calls EXCEPT !.alt_lookup = @ + 1 ]
         IN  IF outcome = "read"
             THEN IF AltIsChecked(checkbox)
                  THEN /\ select_all_clicked' = TRUE
                       /\ calls' = looked
                       /\ UNCHANGED checkbox
                  ELSE \E box \in { "none", "box", "click_raises" } :
                         IF box = "box"
                         THEN /\ calls' = [ looked EXCEPT !.mouse = @ + 1 ]
                              /\ checkbox' = Toggled(checkbox)
                              /\ select_all_clicked' = TRUE
                         ELSE /\ calls' = looked
                              /\ UNCHANGED << select_all_clicked, checkbox >>
             ELSE /\ calls' = looked
                  /\ UNCHANGED << select_all_clicked, checkbox >>
    /\ pc' = "switch_back"
    /\ UNCHANGED << playwright, context, query_element, typed_into, ret >>
    /\ UNCHANGED << mainVars, pollVars, textVars >>

\* A variant without the try of line 88: an exception of the switch back is
\* caught at line 269 and ends the invocation.
SwitchBackUncaught ==
    /\ pc = "switch_back"
    /\ \E outcome \in { "hidden", "raises", "clicked" } :
         /\ calls' = [ calls EXCEPT !.chat_lookup = @ + 1,
                                    !.chat_tab = IF outcome = "clicked" THEN @ + 1 ELSE @ ]
         /\ pc' = IF outcome = "raises" THEN "except" ELSE "find_input"
    /\ checkbox' = [ NoCheckbox EXCEPT !.checked_at_open = checkbox.checked_at_open ]
    /\ UNCHANGED << playwright, context, select_all_clicked, query_element,
                    typed_into, ret >>
    /\ UNCHANGED << mainVars, pollVars, textVars >>

\* chat_tab.is_visible(timeout=3000), chat_tab.click()  (lines 147-158); an
\* exception here is caught at line 154.  The control is not read again, and
\* only what it showed when the panel opened is kept.
SwitchBack ==
    /\ pc = "switch_back"
    /\ \E outcome \in { "hidden", "raises", "clicked" } :
         calls' = [ calls EXCEPT !.chat_lookup = @ + 1,
                                 !.chat_tab = IF outcome = "clicked" THEN @ + 1 ELSE @ ]
    /\ checkbox' = [ NoCheckbox EXCEPT !.checked_at_open = checkbox.checked_at_open ]
    /\ pc' = "find_input"
    /\ UNCHANGED << playwright, context, select_all_clicked, query_element,
                    typed_into, ret >>
    /\ UNCHANGED << mainVars, pollVars, textVars >>

----------------------------------------------------------------------------
(* ask_notebooklm: submitting the question (lines 160-196)                 *)

\* for selector in QUERY_INPUT_SELECTORS: the first selector that
\* wait_for_selector resolves (the others raise and are skipped); 0 for none.
FirstResolved(resolving) ==
    IF resolving = {} THEN 0
    ELSE CHOOSE i \in resolving : \A j \in resolving : i <= j

\* The wait_for_selector calls the loop makes: one for each selector up to the
\* first that resolves, one for each selector of the list when none does.
WaitsMade(found) == IF found = 0 THEN Len(QUERY_INPUT_SELECTORS) ELSE found

\* A variant whose "return None" leaves the function without passing through
\* the finally block.
FindInputSkipsCleanup ==
    /\ pc = "find_input"
    /\ \E resolving \in SUBSET (1..Len(QUERY_INPUT_SELECTORS)) :
         /\ query_element' = FirstResolved(resolving)
         /\ calls' = [ calls EXCEPT !.input_waits = @ + WaitsMade(query_element') ]
         /\ IF query_element' = 0
            THEN ret' = NONE /\ pc' = "main_result"
            ELSE ret' = ret /\ pc' = "type"
    /\ UNCHANGED << playwright, context, select_all_clicked, checkbox, typed_into >>
    /\ UNCHANGED << mainVars, pollVars, textVars >>

\* A variant without the test of line 177: typing follows the loop also when
\* no selector resolved.
FindInputTypesAnyway ==
    /\ pc = "find_input"
    /\ \E resolving \in SUBSET (1..Len(QUERY_INPUT_SELECTORS)) :
         /\ query_element' = FirstResolved(resolving)
         /\ calls' = [ calls EXCEPT !.input_waits = @ + WaitsMade(query_element') ]
         /\ ret' = ret
         /\ pc' = "type"
    /\ UNCHANGED << playwright, context, select_all_clicked, checkbox, typed_into >>
    /\ UNCHANGED << mainVars, pollVars, textVars >>

\* Lines 162-179: with no element found, return None.
FindInput ==
    /\ pc = "find_input"
    /\ \E resolving \in SUBSET (1..Len(QUERY_INPUT_SELECTORS)) :
         /\ query_element' = FirstResolved(resolving)
         /\ calls' = [ calls EXCEPT !.input_waits = @ + WaitsMade(query_element') ]
         /\ IF query_element' = 0
            THEN ret' = NONE /\ pc' = "close"
            ELSE ret' = ret /\ pc' = "type"
    /\ UNCHANGED << playwright, context, select_all_clicked, checkbox, typed_into >>
    /\ UNCHANGED << mainVars, pollVars, textVars >>

\* input_selector = QUERY_INPUT_SELECTORS[0]; StealthUtils.human_type(...)
TypeQuestion ==
    /\ pc = "type"
    /\ \E raises \in BOOLEAN :
         IF raises
         THEN pc' = "except" /\ typed_into' = typed_into
         ELSE pc' = "submit" /\ typed_into' = 1
    /\ UNCHANGED << playwright, context, select_all_clicked, checkbox,
                    query_element, calls, ret >>
    /\ UNCHANGED << mainVars, pollVars, textVars >>

\* page.keyboard.press("Enter"), then the poll state of lines 198-201.
Submit ==
    /\ pc = "submit"
    /\ calls' = [ calls EXCEPT !.enter = @ + 1 ]
    /\ \E raises \in BOOLEAN :
         IF raises
         THEN /\ pc' = "except"
              /\ UNCHANGED pollVars
         ELSE /\ pc' = "poll"
              /\ answer' = NONE
              /\ stable_count' = 0
              /\ last_text' = NONE
              /\ deadline' = now + POLL_TIMEOUT
              /\ UNCHANGED << now, obs >>
    /\ UNCHANGED << playwright, context, select_all_clicked, checkbox,
                    query_element, typed_into, ret >>
    /\ UNCHANGED << mainVars, textVars >>

----------------------------------------------------------------------------
(* ask_notebooklm: polling for the answer (lines 203-267)                  *)

\* Variants of the length gate: a threshold of 10, and 100 itself admitted.
LongEnoughLoose(response_text) == response_text # NONE /\ Len(response_text) > 10
LongEnoughInclusive(response_text) ==
    response_text # NONE /\ Len(response_text) >= MIN_LENGTH

\* len(response_text) > 100, for a candidate that was extracted at all
LongEnough(response_text) == response_text # NONE /\ Len(response_text) > MIN_LENGTH

\* stable_count >= 3
IsStable(count) == count >= STABLE_POLLS

Min(a, b) == IF a < b THEN a ELSE b

\* The observers' record after a poll that extracted response_text (NONE for
\* a poll that extracted nothing).
Observe(o, response_text) ==
    [ polls        |-> Min(o.polls + 1, PollsTracked),
      seen         |-> response_text,
      run_len      |-> IF response_text = NONE THEN 0
                       ELSE IF response_text = o.seen THEN Min(o.run_len + 1, RunLenTracked)
                       ELSE 1,
      runs         |-> IF o.polls = 0 THEN 1
                       ELSE IF response_text = o.seen THEN o.runs
                       ELSE Min(o.runs + 1, RunsTracked),
      all_eligible |-> o.all_eligible /\ LongEnough(response_text),
      raised       |-> o.raised,
      last_raised  |-> FALSE ]

\* A variant of the iteration in which a candidate that is not eligible
\* resets the counter and is remembered.
PollStepResetsOnIneligible(response_text, delay) ==
    /\ IF LongEnough(response_text)
       THEN IF response_text = last_text
            THEN /\ stable_count' = stable_count + 1
                 /\ last_text' = last_text
                 /\ IF IsStable(stable_count')
                    THEN /\ answer' = Strip(response_text)
                         /\ pc' = "poll_end"
                         /\ now' = now + delay
                    ELSE /\ answer' = answer
                         /\ pc' = "poll"
                         /\ now' = now + delay + POLL_SLEEP
            ELSE /\ stable_count' = 0
                 /\ last_text' = response_text
                 /\ answer' = answer
                 /\ pc' = "poll"
                 /\ now' = now + delay + POLL_SLEEP
       ELSE /\ stable_count' = 0
            /\ last_text' = response_text
            /\ answer' = answer
            /\ pc' = "poll"
            /\ now' = now + delay + POLL_SLEEP
    /\ UNCHANGED << deadline, ret >>
    /\ UNCHANGED << mainVars, browserVars, textVars >>

\* A variant of the iteration without time.sleep(1).
PollStepNoSleep(response_text, delay) ==
    /\ IF LongEnough(response_text)
       THEN IF response_text = last_text
            THEN /\ stable_count' = stable_count + 1
                 /\ last_text' = last_text
                 /\ IF IsStable(stable_count')
                    THEN /\ answer' = Strip(response_text)
                         /\ pc' = "poll_end"
                    ELSE /\ answer' = answer
                         /\ pc' = "poll"
            ELSE /\ stable_count' = 0
                 /\ last_text' = response_text
                 /\ answer' = answer
                 /\ pc' = "poll"
       ELSE /\ UNCHANGED << stable_count, last_text, answer >>
            /\ pc' = "poll"
    /\ now' = now + delay
    /\ UNCHANGED << deadline, ret >>
    /\ UNCHANGED << mainVars, browserVars, textVars >>

\* One iteration of the while loop (lines 203-259) that extracted
\* response_text and took delay seconds besides its sleep.
PollStep(response_text, delay) ==
    /\ IF LongEnough(response_text)
       THEN IF response_text = last_text
            THEN /\ stable_count' = stable_count + 1
                 /\ last_text' = last_text
                 /\ IF IsStable(stable_count')
                    THEN /\ answer' = Strip(response_text)
                         /\ pc' = "poll_end"
                         /\ now' = now + delay
                    ELSE /\ answer' = answer
                         /\ pc' = "poll"
                         /\ now' = now + delay + POLL_SLEEP
            ELSE /\ stable_count' = 0
                 /\ last_text' = response_text
                 /\ answer' = answer
                 /\ pc' = "poll"
                 /\ now' = now + delay + POLL_SLEEP
       ELSE /\ UNCHANGED << stable_count, last_text, answer >>
            /\ pc' = "poll"
            /\ now' = now + delay + POLL_SLEEP
    /\ UNCHANGED << deadline, ret >>
    /\ UNCHANGED << mainVars, browserVars, textVars >>

\* while time.time() < deadline: one iteration, on whatever the page shows.
PollIteration ==
    /\ pc = "poll"
    /\ now < deadline
    /\ \E outcome \in PollOutcomes, delay \in 0..MaxReadDelay :
         /\ outcome.question = question
         /\ PollStep(outcome.response_text, delay)
    /\ UNCHANGED obs

\* while time.time() < deadline: the condition is false.
PollDeadline ==
    /\ pc = "poll"
    /\ ~(now < deadline)
    /\ pc' = "poll_end"
    /\ UNCHANGED << mainVars, browserVars, pollVars, textVars, ret >>

\* A variant that on a timeout returns the last candidate it remembered.
PollEndReturnsLast ==
    /\ pc = "poll_end"
    /\ ret' = IF Truthy(answer) THEN answer \o FOLLOW_UP_REMINDER
              ELSE IF last_text # NONE THEN Strip(last_text) \o FOLLOW_UP_REMINDER
              ELSE NONE
    /\ pc' = "close"
    /\ UNCHANGED << mainVars, browserVars, pollVars, textVars >>

\* if not answer: return None;  return answer + FOLLOW_UP_REMINDER
PollEnd ==
    /\ pc = "poll_end"
    /\ ret' = IF ~Truthy(answer) THEN NONE ELSE answer \o FOLLOW_UP_REMINDER
    /\ pc' = "close"
    /\ UNCHANGED << mainVars, browserVars, pollVars, textVars >>

----------------------------------------------------------------------------
(* ask_notebooklm: except and finally (lines 269-287)                      *)

\* except Exception as e: ... return None
Except ==
    /\ pc = "except"
    /\ ret' = NONE
    /\ pc' = "close"
    /\ UNCHANGED << mainVars, browserVars, pollVars, textVars >>

\* A variant with context.close() outside any try: when it raises, the
\* exception leaves the finally block and replaces the value being returned.
CloseContextUnguarded ==
    /\ pc = "close"
    /\ \E raises \in BOOLEAN :
         IF context /\ raises
         THEN /\ calls' = [ calls EXCEPT !.close = @ + 1, !.close_raised = @ + 1 ]
              /\ ret' = NONE
              /\ pc' = "main_result"
         ELSE /\ calls' = IF context THEN [ calls EXCEPT !.close = @ + 1 ] ELSE calls
              /\ ret' = ret
              /\ pc' = "stop"
    /\ UNCHANGED << playwright, context, select_all_clicked, checkbox,
                    query_element, typed_into >>
    /\ UNCHANGED << mainVars, pollVars, textVars >>

\* if context: try: context.close() except: pass
CloseContext ==
    /\ pc = "close"
    /\ \E raises \in BOOLEAN :
         calls' = IF context
                  THEN [ calls EXCEPT !.close = @ + 1,
                                      !.close_raised = IF raises THEN @ + 1 ELSE @ ]
                  ELSE calls
    /\ pc' = "stop"
    /\ UNCHANGED << playwright, context, select_all_clicked, checkbox,
                    query_element, typed_into, ret >>
    /\ UNCHANGED << mainVars, pollVars, textVars >>

\* if playwright: try: playwright.stop() except: pass
StopDriver ==
    /\ pc = "stop"
    /\ calls' = IF playwright THEN [ calls EXCEPT !.stop = @ + 1 ] ELSE calls
    /\ pc' = "main_result"
    /\ UNCHANGED << playwright, context, select_all_clicked, checkbox,
                    query_element, typed_into, ret >>
    /\ UNCHANGED << mainVars, pollVars, textVars >>

----------------------------------------------------------------------------
(* main: the exit status (lines 334-352)                                   *)

\* A variant that reports success whatever ask_notebooklm returned.
MainResultAlwaysZero ==
    /\ pc = "main_result"
    /\ exit_code' = 0
    /\ pc' = "exit"
    /\ UNCHANGED << question, args, library, notebook_url, listed, ret >>
    /\ UNCHANGED << browserVars, pollVars, textVars >>

\* if answer: ... return 0  else: ... return 1
MainResult ==
    /\ pc = "main_result"
    /\ exit_code' = IF Truthy(ret) THEN 0 ELSE 1
    /\ pc' = "exit"
    /\ UNCHANGED << question, args, library, notebook_url, listed, ret >>
    /\ UNCHANGED << browserVars, pollVars, textVars >>

Next ==
    \/ ResolveById
    \/ ResolveActive
    \/ CheckAuth
    \/ StartDriver
    \/ LaunchContext
    \/ Navigate
    \/ SourcesTab
    \/ PrimaryCheckbox
    \/ AltStrategy
    \/ SwitchBack
    \/ FindInput
    \/ TypeQuestion
    \/ Submit
    \/ PollIteration
    \/ PollDeadline
    \/ PollEnd
    \/ Except
    \/ CloseContext
    \/ StopDriver
    \/ MainResult

Spec == Init /\ [][Next]_vars

----------------------------------------------------------------------------
(* The poll loop under observation: the same iteration, with a record kept *)
(* of what each poll extracted.                                            *)

\* The loop is entered (lines 198-201) after a direct-URL invocation found the
\* sources panel hidden and the first input selector visible.
InitPoll ==
    /\ question \in Questions
    /\ args = [ notebook_url |-> DirectUrl, notebook_id |-> NoId ]
    /\ library = [ notebooks |-> {}, active_notebook_id |-> NoId ]
    /\ notebook_url = DirectUrl
    /\ listed = {}
    /\ exit_code = -1
    /\ pc = "poll"
    /\ playwright = TRUE
    /\ context = TRUE
    /\ select_all_clicked = FALSE
    /\ checkbox = NoCheckbox
    /\ query_element = 1
    /\ typed_into = 1
    /\ calls = [ NoCalls EXCEPT !.sources_hidden = 1, !.input_waits = 1, !.enter = 1 ]
    /\ answer = NONE
    /\ stable_count = 0
    /\ last_text = NONE
    /\ now = 0
    /\ deadline = POLL_TIMEOUT
    /\ obs = NoObs
    /\ ret = UNSET
    /\ InitTextIdle

ObservedPollIteration ==
    /\ pc = "poll"
    /\ now < deadline
    /\ \E outcome \in PollOutcomes, delay \in 0..MaxReadDelay :
         /\ outcome.question = question
         /\ PollStep(outcome.response_text, delay)
         /\ obs' = IF outcome.read = READ_RAISES
                   THEN [ Observe(obs, outcome.response_text)
                            EXCEPT !.raised = TRUE, !.last_raised = TRUE ]
                   ELSE Observe(obs, outcome.response_text)

NextPoll ==
    \/ ObservedPollIteration
    \/ PollDeadline
    \/ PollEnd
    \/ CloseContext
    \/ StopDriver
    \/ MainResult

SpecPoll == InitPoll /\ [][NextPoll]_vars

\* The program is sequential: while a statement is left to execute, it is
\* executed.
SpecPollLive == InitPoll /\ [][NextPoll]_vars /\ WF_vars(NextPoll)

----------------------------------------------------------------------------
(* The text functions applied to enumerated inputs                         *)

InitText ==
    /\ question \in Questions
    /\ args = [ notebook_url |-> DirectUrl, notebook_id |-> NoId ]
    /\ library = [ notebooks |-> {}, active_notebook_id |-> NoId ]
    /\ pc = "text"
    /\ InitProgram
    /\ InitTextIdle

\* Lines 210-228 applied to a page snapshot for the question.
LocateAnswer ==
    /\ pc = "text"
    /\ t_op = "none"
    /\ \E page \in BoundaryPages :
        /\ Contains(page, question_marker(question))
        /\ LET after == after_question(question, page)
               k     == MatchedPattern(after)
           IN  /\ t_input' = page
               /\ t_op' = "locate"
               /\ t_result' = [ after    |-> after,
                                pattern  |-> k,
                                start    |-> IF k = 0 THEN -1
                                             ELSE Find(after, response_patterns[k]),
                                response |-> UntrimmedResponse(after) ]
    /\ UNCHANGED << mainVars, browserVars, pollVars, pc, ret >>

\* Lines 231-243 applied to an untrimmed candidate.
TrimCandidate ==
    /\ pc = "text"
    /\ t_op = "none"
    /\ \E c \in TrimInputs :
        /\ t_input' = c
        /\ t_op' = "trim"
        /\ t_result' = [ NoResult EXCEPT !.response = TrimMarkers(c) ]
    /\ UNCHANGED << mainVars, browserVars, pollVars, pc, ret >>

NextText == LocateAnswer \/ TrimCandidate

SpecText == InitText /\ [][NextText]_vars

----------------------------------------------------------------------------
(* Properties of the text functions, under SpecText                        *)

\* 0-based positions at which some end marker occurs first in text.
MarkerPositions(text) ==
    { Find(text, end_markers[k]) : k \in 1..Len(end_markers) } \ { -1 }

\* 0-based positions at which some opening phrase occurs first in text.
PhrasePositions(text) ==
    { Find(text, response_patterns[k]) : k \in 1..Len(response_patterns) } \ { -1 }

Least(S) == CHOOSE x \in S : \A y \in S : x <= y

\* C6: the trimmed candidate is the prefix of the untrimmed candidate that ends
\* just before the earliest occurrence of any end marker, and the untrimmed
\* candidate itself when no marker occurs.
C6_TrimAtEarliestMarker ==
    t_op = "trim" =>
        t_result.response =
            IF MarkerPositions(t_input) = {} THEN t_input
            ELSE SliceTo(t_input, Least(MarkerPositions(t_input)))

\* C9 as stated: the candidate starts at the earliest position, after the
\* question marker, at which any opening phrase occurs.
C9_EarliestPhraseWins ==
    (t_op = "locate" /\ PhrasePositions(t_result.after) # {}) =>
        /\ t_result.start = Least(PhrasePositions(t_result.after))
        /\ t_result.response = SliceFrom(t_result.after, t_result.start)

\* C9 amended: the candidate starts at the first occurrence, after the question
\* marker, of the opening phrase that comes first in list order among the
\* phrases occurring there; with no phrase there is no candidate.
C9_ListOrderWins ==
    t_op = "locate" =>
        /\ \A k \in 1..Len(response_patterns) :
             ( /\ Contains(t_result.after, response_patterns[k])
               /\ \A j \in 1..(k - 1) : ~Contains(t_result.after, response_patterns[j]) )
             => /\ t_result.start = Find(t_result.after, response_patterns[k])
                /\ t_result.response = SliceFrom(t_result.after, t_result.start)
        /\ PhrasePositions(t_result.after) = {} => t_result.response = NONE

\* A page on which a phrase later in the list occurs before the phrase chosen.
C9_Witness ==
    /\ t_op = "locate"
    /\ t_result.pattern = 1
    /\ \E p \in PhrasePositions(t_result.after) : p < t_result.start

----------------------------------------------------------------------------
(* Properties of the poll loop, under SpecPoll                             *)

\* C1: when every poll yields an eligible candidate, the candidates of polls 1,
\* 2 and 3 differ from one to the next and polls 3, 4 and 5 yield the same one,
\* the poller is done with that candidate at poll 5, and not before.
C1_DoneAtThirdObservation ==
    (obs.all_eligible /\ obs.runs = 3) =>
        /\ (obs.polls = 5 /\ obs.run_len = 3) => answer = Strip(obs.seen)
        /\ (obs.polls < 5 /\ obs.run_len < 3) => answer = NONE

----------------------------------------------------------------------------
(* Properties of the invocation, under Spec                                *)

AskReturned == pc \in { "main_result", "exit" } /\ ret # UNSET

\* C4: once the driver is started and the context created, context.close() and
\* playwright.stop() have each been called exactly once when ask_notebooklm
\* has returned, and never more than once.
C4_ReleasedExactlyOnce ==
    /\ calls.close <= 1
    /\ calls.stop <= 1
    /\ (AskReturned /\ playwright /\ context) => (calls.close = 1 /\ calls.stop = 1)

\* ask_notebooklm returned because no input selector resolved.
C4_Witness ==
    /\ AskReturned
    /\ context
    /\ query_element = 0
    /\ calls.close = 1
    /\ calls.stop = 1

\* C5: when the select-all control is checked as the panel opens (by its class,
\* its inner input or aria-checked), no click is issued on it, neither the
\* element click nor the offset pointer click.
C5_NoClickWhenChecked ==
    checkbox.checked_at_open => (calls.checkbox = 0 /\ calls.mouse = 0)

\* The loop ended on the deadline with no candidate promoted.
TimedOut == deadline > 0 /\ now >= deadline /\ answer = NONE /\ pc # "poll"

\* C7: when no candidate is promoted before the deadline, ask_notebooklm
\* returns no answer, also with a long enough candidate remembered, and main
\* exits with a non-zero status.
C7_TimeoutNoAnswer ==
    TimedOut =>
        /\ ret \in { UNSET, NONE }
        /\ pc # "poll_end" => ret = NONE
        /\ pc = "exit" => exit_code = 1

\* A timeout with a long enough candidate seen twice in a row.
C7_Witness ==
    /\ TimedOut
    /\ pc = "exit"
    /\ last_text = AnswerA
    /\ stable_count = 1
    /\ exit_code = 1

\* main returned before it called ask_notebooklm.
NotAsked == pc = "exit" /\ ret = UNSET

Resolved == pc \notin { "main_resolve_id", "main_resolve_active" }

UrlOf(id) == [ notebook |-> id ]

\* C8 as stated: without a direct URL, the URL is the one of the entry matching
\* the key if there is one; else, the key missing or unknown, the one of the
\* active entry if there is one; else the entries are listed and main returns
\* non-zero without asking.
C8_UnknownKeyFallsBack ==
    (Resolved /\ args.notebook_url = NoUrl) =>
        IF args.notebook_id \in library.notebooks
        THEN notebook_url = UrlOf(args.notebook_id) /\ ~NotAsked
        ELSE IF library.active_notebook_id # NoId
        THEN notebook_url = UrlOf(library.active_notebook_id) /\ ~NotAsked
        ELSE listed = library.notebooks /\ NotAsked /\ exit_code = 1

\* C8 amended: without a direct URL, the URL is the one of the entry matching
\* the key if there is one; a key the registry does not know ends main with a
\* non-zero status, nothing listed and nothing asked; with no key, the URL is
\* the one of the active entry if there is one; else the entries are listed and
\* main returns non-zero without asking.
C8_UnknownKeyIsFatal ==
    (Resolved /\ args.notebook_url = NoUrl) =>
        IF args.notebook_id \in library.notebooks
        THEN notebook_url = UrlOf(args.notebook_id) /\ ~NotAsked
        ELSE IF args.notebook_id # NoId
        THEN notebook_url = NoUrl /\ listed = {} /\ NotAsked /\ exit_code = 1
        ELSE IF library.active_notebook_id # NoId
        THEN notebook_url = UrlOf(library.active_notebook_id) /\ ~NotAsked
        ELSE listed = library.notebooks /\ NotAsked /\ exit_code = 1

\* An unknown key with an active notebook in the registry: main has returned 1.
C8_Witness ==
    /\ args.notebook_url = NoUrl
    /\ args.notebook_id = "nb9"
    /\ library.active_notebook_id = "nb2"
    /\ NotAsked
    /\ exit_code = 1

InTeardown == pc \in { "close", "stop" }

\* C11: on every exit path the context is closed before the driver is stopped;
\* when context.close() raises, playwright.stop() is still called, and no step
\* of the teardown changes the value ask_notebooklm returns.
C11_TeardownOrder ==
    /\ []((calls.stop = 1 /\ context) => calls.close = 1)
    /\ []((AskReturned /\ playwright) => calls.stop = 1)
    /\ []((AskReturned /\ calls.close_raised = 1) => calls.stop = 1)
    /\ [][InTeardown => ret' = ret]_vars

\* An answer was returned although context.close() raised.
C11_Witness ==
    /\ pc = "exit"
    /\ calls.close_raised = 1
    /\ calls.stop = 1
    /\ exit_code = 0

\* C12: any change of the trimmed candidate from one poll to the next, also to
\* a candidate that is too short or to no candidate, resets the counter to zero
\* and replaces the remembered text, so that an answer is promoted only when
\* the last 3 polls in a row produced the same candidate.
C12_AnyChangeResets ==
    /\ (pc = "poll" /\ obs.polls > 0) => last_text = obs.seen
    /\ (pc = "poll" /\ obs.polls > 0 /\ obs.run_len <= 1) => stable_count = 0
    /\ answer # NONE => obs.run_len >= 3

\* Control is in the source-selection chain (lines 85-158).
InSelection == pc \in { "sources_tab", "primary", "alt", "switch_back" }

\* C13 as stated: when the Sources tab is not visible within its wait, the
\* text-row approach has been attempted by the time the selection chain is
\* left, hence before the question is submitted.
C13_AbsentPanelTriesAlt ==
    (calls.sources_hidden = 1 /\ ~InSelection) => calls.alt_lookup = 1

\* C13 amended: when the Sources tab is not visible within its wait, the whole
\* chain is skipped: control passes to the search for the query input with
\* selection unconfirmed, and neither the mat-checkbox approach, nor the
\* text-row approach, nor any click, nor the switch back to Chat is attempted;
\* the text-row approach is attempted only after the Sources tab was clicked.
C13_AbsentPanelSkipsChain ==
    /\ [](calls.sources_hidden = 1 =>
            /\ ~InSelection
            /\ ~select_all_clicked
            /\ calls.sources_tab = 0 /\ calls.alt_lookup = 0
            /\ calls.checkbox = 0 /\ calls.mouse = 0
            /\ calls.chat_lookup = 0 /\ calls.chat_tab = 0)
    /\ [](calls.alt_lookup = 1 => calls.sources_tab = 1)
    /\ [][calls.sources_hidden' # calls.sources_hidden => pc' = "find_input"]_vars

\* The Sources tab was not visible, and the question was answered.
C13_Witness ==
    /\ calls.sources_hidden = 1
    /\ calls.enter = 1
    /\ pc = "exit"
    /\ exit_code = 0

\* C14 as stated: whenever the Sources tab was clicked, the Chat tab has been
\* clicked by the time the selection chain is left, whether selection was
\* confirmed or not and whatever step raised.
C14_BackInChatView ==
    (calls.sources_tab = 1 /\ ~InSelection) => calls.chat_tab = 1

\* C14 amended: whenever the Sources tab was clicked, the Chat tab has been
\* looked up once by the time the selection chain is left, whether selection
\* was confirmed or not and whatever step of the two approaches raised; it is
\* clicked at most once, and only when that lookup found it visible and the
\* click did not raise; it is never looked up when the Sources tab was not
\* clicked.
C14_SwitchBackAttempted ==
    /\ (calls.sources_tab = 1 /\ ~InSelection) => calls.chat_lookup = 1
    /\ calls.chat_tab <= calls.chat_lookup
    /\ calls.chat_lookup <= calls.sources_tab

\* The Sources tab was clicked, selection stayed unconfirmed, and the Chat tab
\* was clicked before the question was typed.
C14_Witness ==
    /\ calls.sources_tab = 1
    /\ ~select_all_clicked
    /\ calls.chat_lookup = 1
    /\ calls.chat_tab = 1
    /\ pc = "type"

\* C15: the question is typed into the first selector of the list, in list
\* order, that resolved to a visible element; when the first selector does not
\* resolve and a later one does, the later one is typed into.
C15_TypedIntoMatched ==
    typed_into # 0 => typed_into = query_element

\* C16: every step of the selection chain, whatever it raises and whether or
\* not selection gets confirmed, leads to the next step of the chain or to the
\* search for the query input, and none sets the value ask_notebooklm returns.
C16_SelectionNonFatal ==
    [][InSelection =>
          /\ pc' \in { "primary", "alt", "switch_back", "find_input" }
          /\ ret' = ret]_vars

\* The question was answered although selection stayed unconfirmed and the
\* Chat tab was not clicked after the Sources tab had been.
C16_Witness ==
    /\ calls.sources_tab = 1
    /\ ~select_all_clicked
    /\ calls.chat_tab = 0
    /\ pc = "exit"
    /\ exit_code = 0

\* Every selector of the list was waited for and none resolved.
InputNotFound ==
    calls.input_waits = Len(QUERY_INPUT_SELECTORS) /\ query_element = 0

\* C17: when no input selector resolves, ask_notebooklm returns no answer:
\* nothing is typed, Enter is not pressed, the poll loop is not entered and no
\* selector is waited for twice.  Otherwise Enter is pressed exactly once,
\* after the question was typed and before polling starts.
C17_InputNotFoundStops ==
    /\ InputNotFound =>
           /\ pc \in { "close", "stop", "main_result", "exit" }
           /\ ret = NONE
           /\ typed_into = 0 /\ calls.enter = 0
           /\ deadline = 0 /\ obs = NoObs /\ now = 0
           /\ pc = "exit" => exit_code = 1
    /\ calls.input_waits <= Len(QUERY_INPUT_SELECTORS)
    /\ calls.enter <= 1
    /\ calls.enter = 1 => (typed_into # 0 /\ query_element # 0)
    /\ (typed_into # 0 /\ pc # "submit") => calls.enter = 1
    /\ (pc = "poll" \/ deadline > 0) => calls.enter = 1

\* No input selector resolved after the selection chain had run.
C17_Witness ==
    /\ InputNotFound
    /\ calls.sources_tab = 1
    /\ pc = "exit"
    /\ exit_code = 1

\* text begins with some opening phrase.
StartsWithPhrase(text) ==
    \E k \in 1..Len(response_patterns) :
        /\ Len(text) >= Len(response_patterns[k])
        /\ SubSeq(text, 1, Len(response_patterns[k])) = response_patterns[k]

\* C20: every answer the loop promotes, and ask_notebooklm returns with the
\* reminder appended, begins with one of the four opening phrases and contains
\* no end marker anywhere.
C20_ReturnedAnswerShape ==
    /\ answer # NONE =>
           /\ StartsWithPhrase(answer)
           /\ \A k \in 1..Len(end_markers) : ~Contains(answer, end_markers[k])
    /\ ret \notin { UNSET, NONE } =>
           (answer # NONE /\ ret = answer \o FOLLOW_UP_REMINDER)

\* The second answer, read from a page that shows the footer under it, was
\* returned.
C20_Witness ==
    /\ pc = "exit"
    /\ obs.seen = AnswerB
    /\ ret = Strip(AnswerB) \o FOLLOW_UP_REMINDER

----------------------------------------------------------------------------
(* Properties of the poll loop's runs, under SpecPollLive                   *)

\* C18: every run of the poll loop ends, either with an answer promoted or
\* with none and the deadline passed; an iteration whose read raises ends
\* nothing: the loop goes on with its state kept and nothing returned.
C18_PollerTerminates ==
    /\ <>(pc # "poll")
    /\ [](pc # "poll" => (answer # NONE \/ now >= deadline))
    /\ [][(now' # now /\ obs'.last_raised) =>
             /\ pc' = "poll"
             /\ ret' = ret
             /\ << answer, stable_count, last_text >>' = << answer, stable_count, last_text >>]_vars

\* A read raised, and later an answer was promoted and returned.
C18_Witness ==
    /\ obs.raised
    /\ answer # NONE
    /\ pc = "exit"
    /\ exit_code = 0
====
